---- MODULE Spec2Model ----
(***************************************************************************)
(* Model of the tagsub filter-matching engine (src/src/lib.rs): the        *)
(* LinearScan and TreeScanner topics, fed the same subscriptions and the   *)
(* same events by one driver.                                              *)
(***************************************************************************)
EXTENDS Integers, Sequences, FiniteSets, TLC

\* Number of subscribe calls the driver makes.
MaxSubs == 3

\* Number of subscribe calls the driver of a LinearScan alone makes.
MaxLinearSubs == 2

\* Tag names in the iteration order of BTreeMap<String, _> (lexicographic).
KeyOrder == <<"a", "b", "c">>
\* The tags of the filters and events of the driver of both topics.
Tags == {"a", "b"}
Values == {"foo", "bar"}

\* Filter.tags : BTreeMap<String, BTreeSet<String>>
ValueSets == SUBSET Values
Filters == UNION {[D -> ValueSets] : D \in SUBSET Tags}
\* Event.tags : BTreeMap<String, String>
Events == UNION {[D -> Values] : D \in SUBSET Tags}

\* The tags, filters and events of the driver of the three-tag pipeline: every
\* tag a filter constrains or an event carries has the one value "foo".
WideTags == {KeyOrder[i] : i \in DOMAIN KeyOrder}
WideFilters == UNION {[D -> {{"foo"}}] : D \in SUBSET WideTags}
WideEvents == UNION {[D -> {"foo"}] : D \in SUBSET WideTags}

Range(s) == {s[i] : i \in DOMAIN s}

RECURSIVE Flatten(_)
Flatten(ss) == IF ss = <<>> THEN <<>> ELSE Head(ss) \o Flatten(Tail(ss))

\* Option::None of TagTree.passthrough; node ids start at 1.
None == 0
\* TreeScanner.root
Root == 1

\* TagTree::new()
NewTagTree == [interested |-> <<>>, passthrough |-> None, children |-> <<>>]

VARIABLES
    listeners,  \* LinearScan.listeners : Vec<(L, Filter)>
    pipeline,   \* TreeScanner.pipeline : Vec<String>
    nodes,      \* the TagTree nodes owned by TreeScanner.root, by node id
    panicked,   \* TreeScanner::subscribe hit todo!()
    call,       \* the last call the driver made
    linOut,     \* listeners invoked by the last LinearScan::accept, in order
    treeOut,    \* listeners invoked by the last TreeScanner::accept, in order
    frontiers   \* the values of `cur` during the last TreeScanner::accept

vars == <<listeners, pipeline, nodes, panicked, call, linOut, treeOut, frontiers>>

----------------------------------------------------------------------------
\* LinearScan

\* FilterMatches with unwrap_or(true) for a tag the event lacks
FilterMatchesAbsentOk(filter, evt) ==
    \A tag \in DOMAIN filter :
        IF tag \in DOMAIN evt THEN evt[tag] \in filter[tag] ELSE TRUE

\* the closure of LinearScan::accept: every (tag, values) of the filter is
\* carried by the event with one of the values
FilterMatches(filter, evt) ==
    \A tag \in DOMAIN filter :
        IF tag \in DOMAIN evt THEN evt[tag] \in filter[tag] ELSE FALSE

\* LinearScan::subscribe
LinearSubscribe(ls, listener, filter) ==
    Append(ls, [listener |-> listener, filter |-> filter])

\* LinearScan::accept: the listeners invoked, in invocation order
RECURSIVE LinearAccept(_, _)
LinearAccept(ls, evt) ==
    IF ls = <<>> THEN <<>>
    ELSE (IF FilterMatches(Head(ls).filter, evt)
            THEN <<Head(ls).listener>> ELSE <<>>)
         \o LinearAccept(Tail(ls), evt)

----------------------------------------------------------------------------
\* TreeScanner

\* `missing` of TreeScanner::subscribe: the filter's keys, in key order, that
\* the pipeline does not contain
Missing(filter, pl) ==
    LET absent(k) == k \in DOMAIN filter /\ k \notin Range(pl)
    IN  SelectSeq(KeyOrder, absent)

\* ExtendPipeline putting the missing keys in front
ExtendPipelineFront(pl, filter) == Missing(filter, pl) \o pl

\* self.pipeline.extend(missing)
ExtendPipeline(pl, filter) == pl \o Missing(filter, pl)

\* WalkLen without take(..): the walk runs over the whole pipeline
WalkLenFull(filter, pl) == Len(pl)

\* WalkLen one short: take(filter.tags.len() - 1), saturating at 0
WalkLenShort(filter, pl) ==
    IF Cardinality(DOMAIN filter) = 0 THEN 0 ELSE Cardinality(DOMAIN filter) - 1

\* self.pipeline.iter().take(filter.tags.len())
WalkLen(filter, pl) ==
    IF Cardinality(DOMAIN filter) < Len(pl)
        THEN Cardinality(DOMAIN filter) ELSE Len(pl)

\* Walk with children.insert(v, TagTree::new()) in place of
\* entry(v).or_insert_with(TagTree::new): an existing child is replaced
RECURSIVE WalkInsert(_, _, _, _, _)
WalkInsert(ns, cur, i, filter, pl) ==
    IF i > WalkLen(filter, pl)
    THEN [nodes |-> ns, cur |-> cur, panicked |-> FALSE]
    ELSE
      LET key == pl[i]
          fresh == Len(ns) + 1
      IN
      IF key \notin DOMAIN filter
      THEN IF ns[cur].passthrough = None
           THEN WalkInsert(Append([ns EXCEPT ![cur].passthrough = fresh], NewTagTree),
                           fresh, i + 1, filter, pl)
           ELSE WalkInsert(ns, ns[cur].passthrough, i + 1, filter, pl)
      ELSE IF Cardinality(filter[key]) # 1
      THEN [nodes |-> ns, cur |-> cur, panicked |-> TRUE]
      ELSE LET v == CHOOSE x \in filter[key] : TRUE
               others == [x \in DOMAIN ns[cur].children \ {v} |-> ns[cur].children[x]]
           IN  WalkInsert(Append([ns EXCEPT ![cur].children = others @@ (v :> fresh)],
                                 NewTagTree),
                          fresh, i + 1, filter, pl)

\* the loop of TreeScanner::subscribe from its i-th iteration on: the nodes
\* after it, the node `cur` it ends at, and whether it hit todo!()
RECURSIVE Walk(_, _, _, _, _)
Walk(ns, cur, i, filter, pl) ==
    IF i > WalkLen(filter, pl)
    THEN [nodes |-> ns, cur |-> cur, panicked |-> FALSE]
    ELSE
      LET key == pl[i]
          fresh == Len(ns) + 1
      IN
      IF key \notin DOMAIN filter
      THEN IF ns[cur].passthrough = None
           THEN Walk(Append([ns EXCEPT ![cur].passthrough = fresh], NewTagTree),
                     fresh, i + 1, filter, pl)
           ELSE Walk(ns, ns[cur].passthrough, i + 1, filter, pl)
      ELSE IF Cardinality(filter[key]) # 1
      THEN [nodes |-> ns, cur |-> cur, panicked |-> TRUE]
      ELSE LET v == CHOOSE x \in filter[key] : TRUE
           IN  IF v \in DOMAIN ns[cur].children
               THEN Walk(ns, ns[cur].children[v], i + 1, filter, pl)
               ELSE Walk(Append([ns EXCEPT ![cur].children = @ @@ (v :> fresh)],
                                NewTagTree),
                         fresh, i + 1, filter, pl)

\* TreeSubscribe storing the listener as the node's only one
TreeSubscribeReplace(pl, ns, listener, filter) ==
    LET ext == ExtendPipeline(pl, filter)
        w == Walk(ns, Root, 1, filter, ext)
    IN  [pipeline |-> ext,
         nodes |-> IF w.panicked THEN w.nodes
                   ELSE [w.nodes EXCEPT ![w.cur].interested = <<listener>>],
         panicked |-> w.panicked]

\* TreeScanner::subscribe: the pipeline and nodes it leaves, and whether it
\* panicked
TreeSubscribe(pl, ns, listener, filter) ==
    LET ext == ExtendPipeline(pl, filter)
        w == Walk(ns, Root, 1, filter, ext)
    IN  [pipeline |-> ext,
         nodes |-> IF w.panicked THEN w.nodes
                   ELSE [w.nodes EXCEPT ![w.cur].interested = Append(@, listener)],
         panicked |-> w.panicked]

\* the listeners invoked for the nodes of `cur`, in order
RECURSIVE Deliver(_, _)
Deliver(ns, cur) ==
    IF cur = <<>> THEN <<>>
    ELSE ns[Head(cur)].interested \o Deliver(ns, Tail(cur))

\* Branches pushing every child once the event carries the key
BranchesAnyValue(ns, c, key, evt) ==
    LET RECURSIVE all(_)
        all(vs) == IF vs = {} THEN <<>>
                   ELSE LET v == CHOOSE x \in vs : TRUE
                        IN  <<ns[c].children[v]>> \o all(vs \ {v})
    IN  (IF ns[c].passthrough # None THEN <<ns[c].passthrough>> ELSE <<>>)
        \o (IF key \in DOMAIN evt THEN all(DOMAIN ns[c].children) ELSE <<>>)

\* Branches pushing the value child before the passthrough child
BranchesValueFirst(ns, c, key, evt) ==
    (IF key \in DOMAIN evt /\ evt[key] \in DOMAIN ns[c].children
       THEN <<ns[c].children[evt[key]]>> ELSE <<>>)
    \o (IF ns[c].passthrough # None THEN <<ns[c].passthrough>> ELSE <<>>)

\* what one node c pushes on `next` for a pipeline key
Branches(ns, c, key, evt) ==
    (IF ns[c].passthrough # None THEN <<ns[c].passthrough>> ELSE <<>>)
    \o (IF key \in DOMAIN evt /\ evt[key] \in DOMAIN ns[c].children
          THEN <<ns[c].children[evt[key]]>> ELSE <<>>)

\* NextFrontier without the passthrough children
RECURSIVE NextFrontierNoPassthrough(_, _, _, _)
NextFrontierNoPassthrough(ns, cur, key, evt) ==
    IF cur = <<>> THEN <<>>
    ELSE (IF key \in DOMAIN evt /\ evt[key] \in DOMAIN ns[Head(cur)].children
            THEN <<ns[Head(cur)].children[evt[key]]>> ELSE <<>>)
         \o NextFrontierNoPassthrough(ns, Tail(cur), key, evt)

\* NextFrontier taking the passthrough child only for an event without the key
RECURSIVE NextFrontierPassIfAbsent(_, _, _, _)
NextFrontierPassIfAbsent(ns, cur, key, evt) ==
    IF cur = <<>> THEN <<>>
    ELSE (IF key \in DOMAIN evt
            THEN (IF evt[key] \in DOMAIN ns[Head(cur)].children
                    THEN <<ns[Head(cur)].children[evt[key]]>> ELSE <<>>)
            ELSE (IF ns[Head(cur)].passthrough # None
                    THEN <<ns[Head(cur)].passthrough>> ELSE <<>>))
         \o NextFrontierPassIfAbsent(ns, Tail(cur), key, evt)

\* `next` after the inner loop over `cur`
RECURSIVE NextFrontier(_, _, _, _)
NextFrontier(ns, cur, key, evt) ==
    IF cur = <<>> THEN <<>>
    ELSE Branches(ns, Head(cur), key, evt) \o NextFrontier(ns, Tail(cur), key, evt)

\* Frontiers with next.extend(..) onto the old `cur` in place of cur = next
RECURSIVE FrontiersKeep(_, _, _, _, _)
FrontiersKeep(pl, ns, cur, i, evt) ==
    IF i > Len(pl) THEN <<cur>>
    ELSE <<cur>> \o FrontiersKeep(pl, ns, cur \o NextFrontier(ns, cur, pl[i], evt),
                                  i + 1, evt)

\* the successive values of `cur` in TreeScanner::accept, from the value it
\* has before the i-th pipeline key is processed
RECURSIVE Frontiers(_, _, _, _, _)
Frontiers(pl, ns, cur, i, evt) ==
    IF i > Len(pl) THEN <<cur>>
    ELSE <<cur>> \o Frontiers(pl, ns, NextFrontier(ns, cur, pl[i], evt), i + 1, evt)

\* TreeScanner::accept
TreeFrontiers(pl, ns, evt) == Frontiers(pl, ns, <<Root>>, 1, evt)

\* TreeAccept delivering to the deepest frontier first
TreeAcceptDeepestFirst(pl, ns, evt) ==
    LET fs == TreeFrontiers(pl, ns, evt)
    IN  Flatten([i \in DOMAIN fs |-> Deliver(ns, fs[Len(fs) + 1 - i])])

\* TreeAccept without the loop over `cur` that follows the pipeline loop
TreeAcceptNoFinal(pl, ns, evt) ==
    LET fs == TreeFrontiers(pl, ns, evt)
    IN  Flatten([i \in 1..(Len(fs) - 1) |-> Deliver(ns, fs[i])])

\* the listeners TreeScanner::accept invokes, in invocation order
TreeAccept(pl, ns, evt) ==
    LET fs == TreeFrontiers(pl, ns, evt)
    IN  Flatten([i \in DOMAIN fs |-> Deliver(ns, fs[i])])

----------------------------------------------------------------------------
\* The driver

Init ==
    /\ listeners = <<>>
    /\ pipeline = <<>>
    /\ nodes = <<NewTagTree>>
    /\ panicked = FALSE
    /\ call = [op |-> "new"]
    /\ linOut = <<>>
    /\ treeOut = <<>>
    /\ frontiers = <<>>

\* topic.subscribe(listener, filter) on both topics, the LinearScan first; the
\* todo!() of TreeScanner::subscribe is fatal and ends the run
Subscribe(filter) ==
    /\ ~panicked
    /\ Len(listeners) < MaxSubs
    /\ LET listener == Len(listeners) + 1
           t == TreeSubscribe(pipeline, nodes, listener, filter)
       IN  /\ listeners' = LinearSubscribe(listeners, listener, filter)
           /\ pipeline' = t.pipeline
           /\ nodes' = t.nodes
           /\ panicked' = t.panicked
           /\ call' = [op |-> "subscribe", listener |-> listener, filter |-> filter]
    /\ linOut' = <<>>
    /\ treeOut' = <<>>
    /\ frontiers' = <<>>

\* Accept with c.interested.drain(..) in place of c.interested.iter_mut(): the
\* visited nodes lose their listeners
AcceptDraining(evt) ==
    /\ ~panicked
    /\ call' = [op |-> "accept", evt |-> evt]
    /\ linOut' = LinearAccept(listeners, evt)
    /\ treeOut' = TreeAccept(pipeline, nodes, evt)
    /\ frontiers' = TreeFrontiers(pipeline, nodes, evt)
    /\ nodes' = [n \in DOMAIN nodes |->
                    IF n \in Range(Flatten(TreeFrontiers(pipeline, nodes, evt)))
                        THEN [nodes[n] EXCEPT !.interested = <<>>] ELSE nodes[n]]
    /\ UNCHANGED <<listeners, pipeline, panicked>>

\* topic.accept(&evt) on both topics
Accept(evt) ==
    /\ ~panicked
    /\ call' = [op |-> "accept", evt |-> evt]
    /\ linOut' = LinearAccept(listeners, evt)
    /\ treeOut' = TreeAccept(pipeline, nodes, evt)
    /\ frontiers' = TreeFrontiers(pipeline, nodes, evt)
    /\ UNCHANGED <<listeners, pipeline, nodes, panicked>>

Next ==
    \/ \E filter \in Filters : Subscribe(filter)
    \/ \E evt \in Events : Accept(evt)

Spec == Init /\ [][Next]_vars

----------------------------------------------------------------------------
\* The driver of both topics with a listener whose accept panics

\* UpToFailure with the panic caught: the loop goes on to the next listener
UpToFailureCaught(out, bad) == out

\* the calls listener.accept(evt) made out of the calls `out` the loops would
\* make, when the accept of listener `bad` panics: the panic leaves the loops
UpToFailure(out, bad) ==
    IF \E k \in DOMAIN out : out[k] = bad
    THEN SubSeq(out, 1, CHOOSE k \in DOMAIN out :
                            out[k] = bad /\ \A j \in 1..(k - 1) : out[j] # bad)
    ELSE out

\* the values `cur` has had when the accept of listener `bad` panics
FrontiersUpToFailure(ns, fs, bad) ==
    IF \E k \in DOMAIN fs : bad \in Range(Deliver(ns, fs[k]))
    THEN SubSeq(fs, 1, CHOOSE k \in DOMAIN fs :
                           /\ bad \in Range(Deliver(ns, fs[k]))
                           /\ \A j \in 1..(k - 1) : bad \notin Range(Deliver(ns, fs[j])))
    ELSE fs

\* topic.accept(&evt) on both topics, where the accept of listener `bad`
\* panics and one of the topics invokes it
AcceptFailing(evt, bad) ==
    /\ ~panicked
    /\ bad \in Range(TreeAccept(pipeline, nodes, evt))
                 \cup Range(LinearAccept(listeners, evt))
    /\ call' = [op |-> "accept", evt |-> evt, fails |-> bad]
    /\ linOut' = UpToFailure(LinearAccept(listeners, evt), bad)
    /\ treeOut' = UpToFailure(TreeAccept(pipeline, nodes, evt), bad)
    /\ frontiers' = FrontiersUpToFailure(nodes, TreeFrontiers(pipeline, nodes, evt), bad)
    /\ UNCHANGED <<listeners, pipeline, nodes, panicked>>

\* the panic of a listener went through accept to the driver
ListenerPanicked == call.op = "accept" /\ "fails" \in DOMAIN call

\* a panic that leaves accept ends the run
NextFailing ==
    /\ ~ListenerPanicked
    /\ \/ \E filter \in Filters : Subscribe(filter)
       \/ \E evt \in Events : \E bad \in DOMAIN listeners : AcceptFailing(evt, bad)

SpecFailing == Init /\ [][NextFailing]_vars

----------------------------------------------------------------------------
\* The driver of both topics with filters and events over three tags

NextWide ==
    \/ \E filter \in WideFilters : Subscribe(filter)
    \/ \E evt \in WideEvents : Accept(evt)

SpecWide == Init /\ [][NextWide]_vars

----------------------------------------------------------------------------
\* The driver of a LinearScan alone, which takes every filter

\* LinearScan::subscribe
SubscribeLinear(filter) ==
    /\ Len(listeners) < MaxLinearSubs
    /\ LET listener == Len(listeners) + 1
       IN  /\ listeners' = LinearSubscribe(listeners, listener, filter)
           /\ call' = [op |-> "subscribe", listener |-> listener, filter |-> filter]
    /\ linOut' = <<>>
    /\ UNCHANGED <<pipeline, nodes, panicked, treeOut, frontiers>>

\* LinearScan::accept
AcceptLinear(evt) ==
    /\ call' = [op |-> "accept", evt |-> evt]
    /\ linOut' = LinearAccept(listeners, evt)
    /\ UNCHANGED <<listeners, pipeline, nodes, panicked, treeOut, frontiers>>

NextLinear ==
    \/ \E filter \in Filters : SubscribeLinear(filter)
    \/ \E evt \in Events : AcceptLinear(evt)

SpecLinear == Init /\ [][NextLinear]_vars

----------------------------------------------------------------------------
\* Vocabulary of the properties

\* the filter listener l was subscribed with (listener l is the l-th subscribed)
FilterOf(l) == listeners[l].filter

\* the filter constrains each of its tags to exactly one value
SingleValue(filter) == \A t \in DOMAIN filter : Cardinality(filter[t]) = 1

AllSingleValue == \A l \in DOMAIN listeners : SingleValue(FilterOf(l))

\* the match predicate of a filter: the event carries every tag of the filter
\* with a value of the filter's set
Satisfies(evt, filter) ==
    \A t \in DOMAIN filter : t \in DOMAIN evt /\ evt[t] \in filter[t]

\* the filter's tags are exactly the first N pipeline entries, N its tag count
PrefixOfPipeline(filter) ==
    LET n == Cardinality(DOMAIN filter)
    IN  n <= Len(pipeline) /\ DOMAIN filter = {pipeline[k] : k \in 1..n}

AllPrefixOfPipeline == \A l \in DOMAIN listeners : PrefixOfPipeline(FilterOf(l))

\* how many times x occurs in s
Count(s, x) == Cardinality({k \in DOMAIN s : s[k] = x})

NoDuplicates(s) == \A j, k \in DOMAIN s : j # k => s[j] # s[k]

IsPrefix(s, t) == Len(s) <= Len(t) /\ \A k \in DOMAIN s : s[k] = t[k]

\* e2 is evt plus tags the filter does not name
AddsUnnamedTags(e2, evt, filter) ==
    /\ DOMAIN evt \subseteq DOMAIN e2
    /\ \A t \in DOMAIN evt : e2[t] = evt[t]
    /\ (DOMAIN e2 \ DOMAIN evt) \cap DOMAIN filter = {}

\* the listeners stored in some node's interested list
Registered == UNION {Range(nodes[n].interested) : n \in DOMAIN nodes}

----------------------------------------------------------------------------
\* C1 - Match-equivalence: when every filter is single-valued and its tags are
\* exactly the first N pipeline entries, TreeScanner::accept and
\* LinearScan::accept invoke the same set of listeners.
C1_MatchEquivalence ==
    (call.op = "accept" /\ AllSingleValue /\ AllPrefixOfPipeline)
        => Range(treeOut) = Range(linOut)

\* two tags in the pipeline, three prefix filters, one listener invoked and
\* one not
C1_Witness ==
    /\ call.op = "accept"
    /\ AllSingleValue /\ AllPrefixOfPipeline
    /\ Len(pipeline) = 2 /\ Len(listeners) = 3
    /\ \E l \in DOMAIN listeners : Cardinality(DOMAIN FilterOf(l)) = 2
    /\ Range(treeOut) # {} /\ Range(treeOut) # DOMAIN listeners
    /\ Range(treeOut) = Range(linOut)

\* C2 - No false matches: with single-value filters, accept on either topic
\* never invokes a listener whose filter the event does not satisfy.
C2_NoFalseMatches ==
    (call.op = "accept" /\ AllSingleValue)
        => \A l \in Range(treeOut) \cup Range(linOut) :
               Satisfies(call.evt, FilterOf(l))

\* C3 - No missed matches: with single-value filters, prefix of the pipeline
\* or not, TreeScanner::accept invokes every listener whose filter the event
\* satisfies.
C3_NoMissedMatches ==
    (call.op = "accept" /\ AllSingleValue)
        => \A l \in DOMAIN listeners :
               Satisfies(call.evt, FilterOf(l)) => l \in Range(treeOut)

\* a satisfied filter that is not a prefix of the pipeline, its listener invoked
C3_Witness ==
    /\ call.op = "accept"
    /\ AllSingleValue
    /\ \E l \in DOMAIN listeners :
           /\ ~PrefixOfPipeline(FilterOf(l))
           /\ Satisfies(call.evt, FilterOf(l))
           /\ l \in Range(treeOut)
    /\ \E l \in DOMAIN listeners : l \notin Range(treeOut)

\* C4 - Empty filter matches everything: on both topics a listener subscribed
\* with the empty filter is invoked exactly once by every accept.
C4_EmptyFilterMatchesAll ==
    call.op = "accept"
        => \A l \in DOMAIN listeners :
               DOMAIN FilterOf(l) = {}
                   => Count(treeOut, l) = 1 /\ Count(linOut, l) = 1

\* the event without tags, the empty filter subscribed between two others
C4_Witness ==
    /\ call.op = "accept"
    /\ call.evt = <<>>
    /\ Len(listeners) = 3
    /\ DOMAIN FilterOf(1) # {} /\ DOMAIN FilterOf(2) = {} /\ DOMAIN FilterOf(3) # {}
    /\ Count(treeOut, 2) = 1 /\ Count(linOut, 2) = 1

\* C5 - Unsupported filter shape is fatal: TreeScanner::subscribe with a filter
\* that maps some tag to more than one value panics and does not register the
\* listener.
C5_MultiValueIsFatal ==
    (call.op = "subscribe"
        /\ \E t \in DOMAIN call.filter : Cardinality(call.filter[t]) > 1)
        => panicked /\ call.listener \notin Registered

\* C6 - Idempotent construction: two listeners subscribed with equal
\* single-value filters are invoked together or not at all, and exactly once
\* each for an event that satisfies the filter.
C6_EqualFiltersTogether ==
    call.op = "accept"
        => \A l, m \in DOMAIN listeners :
               (l # m /\ FilterOf(l) = FilterOf(m) /\ SingleValue(FilterOf(l)))
                   => /\ l \in Range(treeOut) <=> m \in Range(treeOut)
                      /\ Satisfies(call.evt, FilterOf(l))
                             => Count(treeOut, l) = 1 /\ Count(treeOut, m) = 1

\* the same one-tag filter subscribed first and last, another filter with its
\* own tag between them, both listeners invoked
C6_Witness ==
    /\ call.op = "accept"
    /\ Len(listeners) = 3
    /\ FilterOf(1) = FilterOf(3) /\ FilterOf(2) # FilterOf(1)
    /\ SingleValue(FilterOf(1)) /\ Cardinality(DOMAIN FilterOf(1)) = 1
    /\ SingleValue(FilterOf(2)) /\ DOMAIN FilterOf(2) # DOMAIN FilterOf(1)
    /\ Satisfies(call.evt, FilterOf(1))
    /\ Count(treeOut, 1) = 1 /\ Count(treeOut, 3) = 1

\* C7 - Unconstrained tags are ignored: on both topics a listener invoked for
\* an event is also invoked for that event plus tags its filter does not name.
C7_ExtraTagsKeepListener ==
    call.op = "accept"
        => \A l \in DOMAIN listeners : \A e2 \in Events :
               AddsUnnamedTags(e2, call.evt, FilterOf(l))
                   => /\ l \in Range(treeOut)
                            => l \in Range(TreeAccept(pipeline, nodes, e2))
                      /\ l \in Range(linOut)
                            => l \in Range(LinearAccept(listeners, e2))

\* a listener invoked for an event that lacks a pipeline tag its filter does
\* not name, while another listener constrains that tag
C7_Witness ==
    /\ call.op = "accept"
    /\ \E l \in Range(treeOut) \cap Range(linOut) :
           /\ DOMAIN FilterOf(l) # {}
           /\ \E t \in Range(pipeline) :
                  t \notin DOMAIN FilterOf(l) /\ t \notin DOMAIN call.evt
           /\ \E e2 \in Events :
                  /\ e2 # call.evt
                  /\ AddsUnnamedTags(e2, call.evt, FilterOf(l))
                  /\ l \in Range(TreeAccept(pipeline, nodes, e2))

\* C8 - Pipeline is append-only and duplicate-free: every step leaves the old
\* pipeline a prefix of the new one and the new one without duplicates, and
\* after subscribe(filter) the pipeline has every tag of the filter.
C8_PipelineAppendOnly ==
    [][/\ IsPrefix(pipeline, pipeline')
       /\ NoDuplicates(pipeline')
       /\ call'.op = "subscribe" => DOMAIN call'.filter \subseteq Range(pipeline')
      ]_vars

\* a second subscribe appended a tag behind one that sorts after it
C8_Witness ==
    /\ call.op = "subscribe"
    /\ call.listener = 2
    /\ pipeline = <<"b", "a">>
    /\ DOMAIN FilterOf(1) = {"b"}

\* C9 - LinearScan::accept invokes exactly the listeners whose filter matches
\* the event under the set predicate, each once, in subscription order.
C9_LinearScanExact ==
    call.op = "accept"
        => /\ \A l \in DOMAIN listeners :
                  Count(linOut, l) = IF Satisfies(call.evt, FilterOf(l)) THEN 1 ELSE 0
           /\ Range(linOut) \subseteq DOMAIN listeners
           /\ \A j, k \in DOMAIN linOut : j < k => linOut[j] < linOut[k]

\* two listeners invoked in subscription order, one through a two-value set
C9_Witness ==
    /\ call.op = "accept"
    /\ linOut = <<1, 2>>
    /\ \E t \in DOMAIN FilterOf(1) : Cardinality(FilterOf(1)[t]) = 2
    /\ DOMAIN FilterOf(2) # {}

\* C10 - At most once per accept: TreeScanner::accept invokes no listener
\* twice, and no node occurs twice in the frontiers, within one or across two.
C10_AtMostOnce ==
    call.op = "accept"
        => /\ \A l \in DOMAIN listeners : Count(treeOut, l) <= 1
           /\ NoDuplicates(Flatten(frontiers))

\* a frontier of two nodes, each with a listener that is invoked
C10_Witness ==
    /\ call.op = "accept"
    /\ \E k \in DOMAIN frontiers :
           /\ Len(frontiers[k]) = 2
           /\ \A j \in 1..2 : nodes[frontiers[k][j]].interested # <<>>
    /\ Len(treeOut) >= 2
    /\ NoDuplicates(treeOut)

----------------------------------------------------------------------------
\* Vocabulary of the trie's shape

\* node n is the passthrough child of node m
IsPassthroughOf(m, n) == nodes[m].passthrough = n

\* node n is a value child of node m
IsValueChildOf(m, n) == \E v \in DOMAIN nodes[m].children : nodes[m].children[v] = n

Parents(n) == {m \in DOMAIN nodes : IsPassthroughOf(m, n) \/ IsValueChildOf(m, n)}

\* the number of edges from the root to node n
RECURSIVE Depth(_)
Depth(n) == IF n = Root THEN 0 ELSE 1 + Depth(CHOOSE m \in Parents(n) : TRUE)

\* the nodes whose interested list holds listener l
NodesOf(l) == {n \in DOMAIN nodes : l \in Range(nodes[n].interested)}

\* the first N pipeline keys, N the filter's tag count
WalkedKeys(filter) ==
    {pipeline[k] : k \in 1..Cardinality(DOMAIN filter)} \cap Range(pipeline)

\* the two events carry the same values for the keys
AgreeOn(e1, e2, keys) ==
    \A t \in keys :
        /\ t \in DOMAIN e1 <=> t \in DOMAIN e2
        /\ t \in DOMAIN e1 => e1[t] = e2[t]

\* the first position of x in s
Pos(s, x) == CHOOSE k \in DOMAIN s : s[k] = x /\ \A j \in 1..(k - 1) : s[j] # x

----------------------------------------------------------------------------
C12_DepthInvariant ==
    \A n \in DOMAIN nodes :
        /\ Depth(n) <= Len(pipeline)
        /\ \A l \in Range(nodes[n].interested) :
               Depth(n) = Cardinality(DOMAIN FilterOf(l))

\* listeners at depths 0, 1 and 2, the one at depth 1 behind a passthrough edge
C12_Witness ==
    /\ Len(pipeline) = 2
    /\ nodes[Root].interested # <<>>
    /\ nodes[Root].passthrough # None
    /\ nodes[nodes[Root].passthrough].interested # <<>>
    /\ \E n \in DOMAIN nodes : Depth(n) = 2 /\ nodes[n].interested # <<>>

\* C13 - Delivery order by depth: TreeScanner::accept invokes the listeners in
\* order of non-decreasing depth of their node, which is the number of tags of
\* their filter; the root's listeners come first.
C13_OrderByDepth ==
    call.op = "accept"
        => /\ \A j, k \in DOMAIN treeOut :
                  j < k => /\ \A n \in NodesOf(treeOut[j]) : \A m \in NodesOf(treeOut[k]) :
                                  Depth(n) <= Depth(m)
                           /\ Cardinality(DOMAIN FilterOf(treeOut[j]))
                                  <= Cardinality(DOMAIN FilterOf(treeOut[k]))
           /\ \A k \in DOMAIN treeOut :
                  k <= Len(nodes[Root].interested) => treeOut[k] = nodes[Root].interested[k]

\* listeners of depths 0, 1 and 2 invoked in one accept, subscribed deepest
\* first
C13_Witness ==
    /\ call.op = "accept"
    /\ Len(treeOut) = 3
    /\ Cardinality(DOMAIN FilterOf(1)) = 2
    /\ Cardinality(DOMAIN FilterOf(2)) = 1
    /\ Cardinality(DOMAIN FilterOf(3)) = 0
    /\ treeOut = <<3, 2, 1>>

\* every listener of node n is invoked before every listener of node m
DeliveredBefore(n, m) ==
    \A l \in Range(nodes[n].interested) : \A r \in Range(nodes[m].interested) :
        Pos(treeOut, l) < Pos(treeOut, r)

\* C14 as claimed - Passthrough before value at each level: among the nodes
\* TreeScanner::accept visits at one depth, every node reached through a
\* passthrough edge has its listeners invoked before any node reached through
\* a value edge.
C14_PassthroughBeforeValue ==
    call.op = "accept"
        => \A k \in DOMAIN frontiers : \A n, m \in Range(frontiers[k]) :
               ((\E p \in DOMAIN nodes : IsPassthroughOf(p, n))
                   /\ (\E p \in DOMAIN nodes : IsValueChildOf(p, m)))
                   => DeliveredBefore(n, m)

\* C14 as amended - Passthrough before value among siblings: among the nodes
\* TreeScanner::accept visits, the passthrough child of a node has its
\* listeners invoked before the value child of the same node.
C14_PassthroughBeforeValueSibling ==
    call.op = "accept"
        => \A k \in DOMAIN frontiers : \A n, m \in Range(frontiers[k]) :
               (\E p \in DOMAIN nodes : IsPassthroughOf(p, n) /\ IsValueChildOf(p, m))
                   => DeliveredBefore(n, m)

\* at depth 2 the passthrough child and the value child of one node are both
\* visited, each with a listener
C14_Witness ==
    /\ call.op = "accept"
    /\ Len(frontiers) >= 3
    /\ \E n, m \in Range(frontiers[3]) :
           /\ \E p \in DOMAIN nodes : IsPassthroughOf(p, n) /\ IsValueChildOf(p, m)
           /\ nodes[n].interested # <<>> /\ nodes[m].interested # <<>>
           /\ DeliveredBefore(n, m)

\* C15 - accept is read-only on the engine: an accept on either topic leaves
\* the pipeline, the nodes and the (listener, filter) list as they were, so the
\* same accept made again invokes the same listeners in the same order.
C15_AcceptReadOnly ==
    [][call'.op = "accept"
          => /\ pipeline' = pipeline
             /\ nodes' = nodes
             /\ listeners' = listeners
             /\ TreeAccept(pipeline', nodes', call'.evt) = treeOut'
             /\ LinearAccept(listeners', call'.evt) = linOut'
      ]_vars

\* an accept that invoked listeners of the root and of a deeper node
C15_Witness ==
    /\ call.op = "accept"
    /\ Len(treeOut) >= 2 /\ Len(linOut) >= 2
    /\ nodes[Root].interested # <<>>
    /\ \E k \in DOMAIN frontiers : \E n \in Range(frontiers[k]) :
           n # Root /\ nodes[n].interested # <<>>

\* C16 - Later subscriptions do not disturb earlier ones: a subscribe that
\* completes keeps every node, every edge and every stored listener, appends
\* to the pipeline and stores one new listener; every listener stored before
\* keeps its node and is invoked for the same events as before.
C16_SubscribeKeepsEarlier ==
    [][(call'.op = "subscribe" /\ ~panicked')
          => /\ IsPrefix(pipeline, pipeline')
             /\ Len(nodes) <= Len(nodes')
             /\ \A n \in DOMAIN nodes :
                    /\ nodes[n].passthrough # None
                           => nodes'[n].passthrough = nodes[n].passthrough
                    /\ \A v \in DOMAIN nodes[n].children :
                           /\ v \in DOMAIN nodes'[n].children
                           /\ nodes'[n].children[v] = nodes[n].children[v]
                    /\ IsPrefix(nodes[n].interested, nodes'[n].interested)
             /\ call'.listener \notin Registered
             /\ Registered' = Registered \cup {call'.listener}
             /\ \A l \in Registered : NodesOf(l)' = NodesOf(l)
             /\ \A evt \in Events :
                    Range(TreeAccept(pipeline', nodes', evt)) \ {call'.listener}
                        = Range(TreeAccept(pipeline, nodes, evt))
      ]_vars

\* a third subscribe that added a pipeline key and a node under a node that
\* already held a listener
C16_Witness ==
    /\ call.op = "subscribe"
    /\ call.listener = 3
    /\ ~panicked
    /\ Len(pipeline) = 2
    /\ Cardinality(Registered) = 3
    /\ \E n \in DOMAIN nodes :
           /\ n # Root
           /\ 1 \in Range(nodes[n].interested)
           /\ \E m \in DOMAIN nodes : n \in Parents(m) /\ 3 \in Range(nodes[m].interested)

\* C17 - Listener failure aborts the fan-out: when a listener's accept panics
\* during accept, the listeners invoked are those the call would invoke up to
\* and including the failing one, none after it, and the pipeline, the nodes
\* and the (listener, filter) list stay as they were.
C17_FailureAbortsFanOut ==
    [][(call'.op = "accept" /\ "fails" \in DOMAIN call')
          => LET bad == call'.fails
                 tree == TreeAccept(pipeline, nodes, call'.evt)
                 lin == LinearAccept(listeners, call'.evt)
                 cut(out, full) ==
                     /\ IsPrefix(out, full)
                     /\ IF bad \in Range(full)
                        THEN /\ out # <<>>
                             /\ out[Len(out)] = bad
                             /\ Count(out, bad) = 1
                        ELSE out = full
             IN  /\ cut(treeOut', tree)
                 /\ cut(linOut', lin)
                 /\ pipeline' = pipeline
                 /\ nodes' = nodes
                 /\ listeners' = listeners
      ]_vars

\* the second of three listeners both topics would invoke panicked: the first
\* two were invoked, the third was not
C17_Witness ==
    /\ ListenerPanicked
    /\ call.fails = 2
    /\ Len(TreeAccept(pipeline, nodes, call.evt)) = 3
    /\ Len(LinearAccept(listeners, call.evt)) = 3
    /\ Len(treeOut) = 2 /\ treeOut[2] = 2
    /\ linOut = <<1, 2>>
    /\ \E n \in DOMAIN nodes : n # Root /\ nodes[n].interested # <<>>

====
